---- MODULE Spec2Model ----
(***************************************************************************)
(* The blink-scheduling subsystem of src/leds.c: the message queue         *)
(* led_msgq, the renderer thread led_process_thread, the boot thread       *)
(* led_init_thread and the three event listeners.                          *)
(*                                                                         *)
(* Threads are interleaved at the granularity of their kernel calls        *)
(* (k_msgq_put, k_msgq_get, k_sleep, led_on, led_off).  Time is not        *)
(* modelled: a k_sleep is a step that may take arbitrarily long.           *)
(***************************************************************************)
EXTENDS Integers, Sequences, FiniteSets, TLC

(***************************************************************************)
(* enum blink_rate_t (leds.c:34-40).  The numeric values matter: a struct  *)
(* member left out of a designated initializer is zero, i.e. BLINK_OFF.    *)
(***************************************************************************)
BLINK_OFF == 0
BLINK_SLOW == 1
BLINK_MEDIUM == 2
BLINK_FAST == 3
BLINK_FRANTIC == 4

\* K_MSGQ_DEFINE(led_msgq, sizeof(struct blink_item), 16, 1)
MSGQ_MAX_MSGS == 16

(***************************************************************************)
(* Build-time configuration (Kconfig symbols used by leds.c; the values    *)
(* are the defaults of the widget's Kconfig).                              *)
(***************************************************************************)
CONFIG_RGBLED_WIDGET_OUTPUT_BLINK_MS == 1000
CONFIG_RGBLED_WIDGET_BATTERY_BLINK_MS == 2000
CONFIG_RGBLED_WIDGET_LAYER_BLINK_MS == 100
CONFIG_RGBLED_WIDGET_INTERVAL_MS == 500
CONFIG_RGBLED_WIDGET_BATTERY_LEVEL_HIGH == 80
CONFIG_RGBLED_WIDGET_BATTERY_LEVEL_LOW == 20
CONFIG_RGBLED_WIDGET_BATTERY_LEVEL_CRITICAL == 5

(***************************************************************************)
(* Bounds of the model.                                                    *)
(***************************************************************************)
\* number of events the event bus delivers to the listeners in one run
MaxEvents == 2
\* number of events delivered in the runs that fill the queue
FullEvents == 1
\* largest value zmk_keymap_highest_layer_active() returns
MaxLayer == 17

VARIABLES
    cfg,            \* build configuration: thresholds, blink time, split role
    env,            \* the inputs the collaborators may deliver in this run
    initialized,    \* static bool initialized
    led_msgq,       \* contents of led_msgq, oldest first
    led,            \* state of the indicator LED: TRUE = on
    rpc,            \* led_process_thread: position
    blink,          \* led_process_thread: struct blink_item blink
    ipc,            \* led_init_thread: position
    battery_level,  \* led_init_thread: uint8_t battery_level
    retry,          \* led_init_thread: int retry
    lpc,            \* led_layer_listener_cb: position
    index,          \* led_layer_listener_cb: uint8_t index
    i,              \* led_layer_listener_cb: int i
    rsleep,         \* led_process_thread: ms until its k_sleep returns
    isleep,         \* led_init_thread: ms until its k_sleep returns
    \* ---- history variables (not program state) ----
    put_ret,        \* return value of the last k_msgq_put
    nput,           \* calls of k_msgq_put so far
    accepted,       \* every item k_msgq_put accepted, in order
    rendered,       \* every item handed to led_do_blink, in order
    rsteps,         \* the renderer's steps since its last k_msgq_get
    isteps,         \* the boot thread's steps after the battery read-out
    nreads,         \* re-reads of the battery charge by the boot thread
    ev,             \* the last output/battery event handled and its puts
    lev,            \* the last layer event handled and its puts
    nevents         \* events delivered so far

vars == <<cfg, env, initialized, led_msgq, led, rpc, blink, ipc, battery_level,
          retry, lpc, index, i, rsleep, isleep, put_ret, nput, accepted, rendered, rsteps, isteps,
          nreads, ev, lev, nevents>>

envVars == <<cfg, env>>
queueVars == <<led_msgq, put_ret, nput, accepted>>
rendererVars == <<led, rpc, blink, rsleep, rendered, rsteps>>
bootVars == <<initialized, ipc, battery_level, retry, isleep, isteps, nreads>>
layerVars == <<lpc, index, i, lev>>
eventVars == <<ev, nevents>>

\* start delays of the two threads (K_THREAD_DEFINE), in ms
led_process_delay == 100
led_init_delay == 200

\* k_sleep(K_MSEC(ms)): the time until the caller runs again.  Runs that do
\* not measure time (env.timed = FALSE) let every sleep return at any moment.
k_sleep(ms) == IF env.timed THEN ms ELSE 0

Rates == {BLINK_OFF, BLINK_SLOW, BLINK_MEDIUM, BLINK_FAST, BLINK_FRANTIC}

\* struct blink_item (leds.c:43-48)
blink_item(rate, duration_ms, first_item, sleep_ms) ==
    [rate |-> rate, duration_ms |-> duration_ms,
     first_item |-> first_item, sleep_ms |-> sleep_ms]

\* the renderer's local before the first k_msgq_get wrote it
NoItem == [rate |-> -1, duration_ms |-> 0, first_item |-> FALSE, sleep_ms |-> 0]

(***************************************************************************)
(* k_msgq_put(&led_msgq, item, K_NO_WAIT): appends when there is room,     *)
(* otherwise returns -ENOMSG at once and leaves the queue alone.           *)
(***************************************************************************)
\* faulty variant: the put never refuses
k_msgq_put_unbounded(q, item) == Append(q, item)

k_msgq_put(q, item) ==
    IF Len(q) < MSGQ_MAX_MSGS THEN Append(q, item) ELSE q

k_msgq_put_ret(q) ==
    IF Len(q) < MSGQ_MAX_MSGS THEN "0" ELSE "ENOMSG"

\* the history of one k_msgq_put on the current queue
Put(item) ==
    /\ led_msgq' = k_msgq_put(led_msgq, item)
    /\ put_ret' = k_msgq_put_ret(led_msgq)
    /\ nput' = nput + 1
    /\ accepted' = IF put_ret' = "0" THEN Append(accepted, item)
                   ELSE accepted

(***************************************************************************)
(* led_process_thread (leds.c:192-213) and led_do_blink (leds.c:54-84).    *)
(* rpc is the call the thread is in or about to make:                      *)
(*   "get"   k_msgq_get(K_FOREVER)                                         *)
(*   "blink" led_do_blink is about to be called                            *)
(*   "on"    first k_sleep of led_do_blink, LED on                         *)
(*   "off"   second k_sleep of led_do_blink, LED off                       *)
(*   "gap"   k_sleep of the interval after the blink                       *)
(***************************************************************************)
\* faulty variant: the BLINK_MEDIUM case sleeps like the BLINK_SLOW case
half_period_medium_slow(rate) ==
    CASE rate = BLINK_SLOW -> 300
      [] rate = BLINK_MEDIUM -> 300
      [] rate = BLINK_FAST -> 80
      [] rate = BLINK_FRANTIC -> 20
      [] OTHER -> 0

\* the k_sleep argument of each case of led_do_blink's switch
half_period(rate) ==
    CASE rate = BLINK_SLOW -> 300
      [] rate = BLINK_MEDIUM -> 150
      [] rate = BLINK_FAST -> 80
      [] rate = BLINK_FRANTIC -> 20
      [] OTHER -> 0

\* faulty variant: the item's own sleep_ms is ignored
gap_ms_default(item) == CONFIG_RGBLED_WIDGET_INTERVAL_MS

\* leds.c:207-211
gap_ms(item) ==
    IF item.sleep_ms > 0 THEN item.sleep_ms
    ELSE CONFIG_RGBLED_WIDGET_INTERVAL_MS

\* faulty variant: the newest item is handed out
k_msgq_get_newest(q) == q[Len(q)]

\* the item k_msgq_get hands out
k_msgq_get(q) == Head(q)

\* what k_msgq_get leaves in the queue
k_msgq_get_rest(q) == Tail(q)

\* faulty variant: the thread waits until a second item is queued
get_enabled_pair == rpc = "get" /\ Len(led_msgq) >= 2

\* faulty variant: the next item is fetched without waiting for the gap to pass
get_enabled_early == rpc \in {"get", "gap"}

\* the position at which the thread may call k_msgq_get
get_enabled == rpc = "get"

led_process_get ==
    /\ get_enabled
    /\ rsleep = 0
    /\ led_msgq # <<>>
    /\ blink' = k_msgq_get(led_msgq)
    /\ led_msgq' = k_msgq_get_rest(led_msgq)
    /\ rpc' = "blink"
    /\ rsteps' = <<>>
    /\ UNCHANGED <<led, rendered, put_ret, nput, accepted>>
    /\ rsleep' = 0
    /\ UNCHANGED <<envVars, bootVars, layerVars, eventVars>>

\* led_do_blink up to its first k_sleep; for BLINK_OFF the whole of it and
\* the call of the interval's k_sleep
led_do_blink_begin ==
    /\ rpc = "blink"
    /\ rendered' = Append(rendered, blink)
    /\ IF blink.rate = BLINK_OFF
       THEN /\ led' = FALSE
            /\ rpc' = "gap"
            /\ rsteps' = rsteps \o <<<<"led_off", 0>>,
                                     <<"k_sleep", gap_ms(blink)>>>>
       ELSE /\ led' = TRUE
            /\ rpc' = "on"
            /\ rsteps' = rsteps \o <<<<"led_on", 0>>,
                                     <<"k_sleep", half_period(blink.rate)>>>>
    /\ UNCHANGED <<blink>>
    /\ rsleep' = k_sleep(IF blink.rate = BLINK_OFF THEN gap_ms(blink)
                          ELSE half_period(blink.rate))
    /\ UNCHANGED <<envVars, queueVars, bootVars, layerVars, eventVars>>

\* faulty variant: the LED is not turned off after the first k_sleep
led_do_blink_off_stays_on ==
    /\ rpc = "on"
    /\ rsleep = 0
    /\ rpc' = "off"
    /\ rsteps' = rsteps \o <<<<"led_off", 0>>,
                             <<"k_sleep", half_period(blink.rate)>>>>
    /\ UNCHANGED <<led, blink, rendered>>
    /\ rsleep' = k_sleep(half_period(blink.rate))
    /\ UNCHANGED <<envVars, queueVars, bootVars, layerVars, eventVars>>

\* the first k_sleep returns: led_off and the second k_sleep
led_do_blink_off ==
    /\ rpc = "on"
    /\ rsleep = 0
    /\ led' = FALSE
    /\ rpc' = "off"
    /\ rsteps' = rsteps \o <<<<"led_off", 0>>,
                             <<"k_sleep", half_period(blink.rate)>>>>
    /\ UNCHANGED <<blink, rendered>>
    /\ rsleep' = k_sleep(half_period(blink.rate))
    /\ UNCHANGED <<envVars, queueVars, bootVars, layerVars, eventVars>>

\* led_do_blink returns: the k_sleep of the interval
led_process_gap ==
    /\ rpc = "off"
    /\ rsleep = 0
    /\ rpc' = "gap"
    /\ rsteps' = Append(rsteps, <<"k_sleep", gap_ms(blink)>>)
    /\ UNCHANGED <<led, blink, rendered>>
    /\ rsleep' = k_sleep(gap_ms(blink))
    /\ UNCHANGED <<envVars, queueVars, bootVars, layerVars, eventVars>>

\* the interval's k_sleep returns: back to k_msgq_get
led_process_next ==
    /\ rpc = "gap"
    /\ rsleep = 0
    /\ rpc' = "get"
    /\ rsteps' = Append(rsteps, <<"loop", 0>>)
    /\ UNCHANGED <<led, blink, rendered>>
    /\ rsleep' = 0
    /\ UNCHANGED <<envVars, queueVars, bootVars, layerVars, eventVars>>

(***************************************************************************)
(* output_blink (leds.c:88-114).  connected and open are the answers of    *)
(* zmk_ble_active_profile_is_connected / _is_open on a central, and        *)
(* connected is zmk_split_bt_peripheral_is_connected on a peripheral.      *)
(***************************************************************************)
\* faulty variant: a connected peripheral blinks off, as its log message says
output_rate_periph_off(peripheral, connected, open) ==
    IF ~peripheral
    THEN IF connected THEN BLINK_OFF
         ELSE IF open THEN BLINK_FAST
         ELSE BLINK_SLOW
    ELSE IF connected THEN BLINK_OFF
         ELSE BLINK_FAST

output_rate(peripheral, connected, open) ==
    IF ~peripheral
    THEN IF connected THEN BLINK_OFF
         ELSE IF open THEN BLINK_FAST
         ELSE BLINK_SLOW
    ELSE IF connected THEN BLINK_SLOW
         ELSE BLINK_FAST

output_item(peripheral, connected, open) ==
    blink_item(output_rate(peripheral, connected, open),
               CONFIG_RGBLED_WIDGET_OUTPUT_BLINK_MS, FALSE, 0)

\* the answers the connectivity subsystem can give in this build
OpenAnswers == IF cfg.peripheral THEN {FALSE} ELSE BOOLEAN

(***************************************************************************)
(* led_init_thread (leds.c:219-265).  ipc:                                 *)
(*   "start" before the first zmk_battery_state_of_charge                  *)
(*   "loop"  at the test of the retry loop                                 *)
(*   "sleep" in the k_sleep after the battery item was put                 *)
(*   "ready" output_blink returned, initialized not yet written            *)
(*   "done"  the thread has returned                                       *)
(***************************************************************************)
\* faulty variant: a level below the low threshold blinks fast
boot_rate_low_fast(level, low, high) ==
    IF level = 0 THEN BLINK_OFF
    ELSE IF level >= high THEN BLINK_SLOW
    ELSE BLINK_FAST

\* faulty variant: the thresholds are compared with > instead of >=
boot_rate_strict(level, low, high) ==
    IF level = 0 THEN BLINK_OFF
    ELSE IF level > high THEN BLINK_SLOW
    ELSE IF level > low THEN BLINK_FAST
    ELSE BLINK_OFF

\* leds.c:237-249; blink.rate is zero (BLINK_OFF) when no branch sets it
boot_rate(level, low, high) ==
    IF level = 0 THEN BLINK_OFF
    ELSE IF level >= high THEN BLINK_SLOW
    ELSE IF level >= low THEN BLINK_FAST
    ELSE BLINK_OFF

boot_item(level, low, high) ==
    blink_item(boot_rate(level, low, high),
               cfg.battery_blink_ms, TRUE, 0)

\* faulty variant: one retry too many
retry_test_eleven(level, n) == level = 0 /\ n <= 10

\* the test of the while loop, leds.c:232
retry_test(level, n) == level = 0 /\ n < 10

led_init_read ==
    /\ ipc = "start"
    /\ isleep = 0
    /\ \E l \in env.levels : battery_level' = l
    /\ retry' = 0
    /\ ipc' = "loop"
    /\ UNCHANGED <<initialized, isteps, nreads>>
    /\ isleep' = 0
    /\ UNCHANGED <<envVars, queueVars, rendererVars, layerVars, eventVars>>

\* faulty variant: retry wraps to 0 before it reaches the bound
led_init_retry_wraps ==
    /\ ipc = "loop"
    /\ isleep = 0
    /\ retry_test(battery_level, retry)
    /\ retry' = IF retry >= 9 THEN 0 ELSE retry + 1
    /\ \E l \in env.levels : battery_level' = l
    /\ nreads' = IF nreads < 10 THEN nreads + 1 ELSE nreads
    /\ UNCHANGED <<initialized, ipc, isteps>>
    /\ isleep' = k_sleep(100)
    /\ UNCHANGED <<envVars, queueVars, rendererVars, layerVars, eventVars>>

\* the test holds: retry++, k_sleep(100), read again
led_init_retry ==
    /\ ipc = "loop"
    /\ isleep = 0
    /\ retry_test(battery_level, retry)
    /\ retry' = retry + 1
    /\ \E l \in env.levels : battery_level' = l
    /\ nreads' = nreads + 1
    /\ UNCHANGED <<initialized, ipc, isteps>>
    /\ isleep' = k_sleep(100)
    /\ UNCHANGED <<envVars, queueVars, rendererVars, layerVars, eventVars>>

\* the test fails (retry++ is still evaluated when battery_level == 0):
\* map the level, put the item, call k_sleep
led_init_battery ==
    /\ ipc = "loop"
    /\ isleep = 0
    /\ ~retry_test(battery_level, retry)
    /\ retry' = IF battery_level = 0 THEN retry + 1 ELSE retry
    /\ Put(boot_item(battery_level, cfg.low, cfg.high))
    /\ isteps' = isteps \o <<"k_msgq_put", "k_sleep">>
    /\ ipc' = "sleep"
    /\ UNCHANGED <<initialized, battery_level, nreads>>
    /\ isleep' = k_sleep(cfg.battery_blink_ms
                          + CONFIG_RGBLED_WIDGET_INTERVAL_MS)
    /\ UNCHANGED <<envVars, rendererVars, layerVars, eventVars>>

\* faulty variant: the boot thread turns the LED off itself
led_init_output_led_off ==
    /\ ipc = "sleep"
    /\ isleep = 0
    /\ \E connected \in BOOLEAN, open \in OpenAnswers :
          Put(output_item(cfg.peripheral, connected, open))
    /\ isteps' = Append(isteps, "output_blink")
    /\ ipc' = "ready"
    /\ led' = FALSE
    /\ UNCHANGED <<initialized, battery_level, retry, nreads>>
    /\ UNCHANGED <<rpc, blink, rsleep, rendered, rsteps>>
    /\ isleep' = 0
    /\ UNCHANGED <<envVars, layerVars, eventVars>>

\* faulty variant: initialized is set before output_blink is called
led_init_output_ready_first ==
    /\ ipc = "sleep"
    /\ isleep = 0
    /\ \E connected \in BOOLEAN, open \in OpenAnswers :
          Put(output_item(cfg.peripheral, connected, open))
    /\ isteps' = Append(isteps, "output_blink")
    /\ ipc' = "ready"
    /\ initialized' = TRUE
    /\ UNCHANGED <<battery_level, retry, nreads>>
    /\ isleep' = 0
    /\ UNCHANGED <<envVars, rendererVars, layerVars, eventVars>>

\* the k_sleep returns: output_blink()
led_init_output ==
    /\ ipc = "sleep"
    /\ isleep = 0
    /\ \E connected \in BOOLEAN, open \in OpenAnswers :
          Put(output_item(cfg.peripheral, connected, open))
    /\ isteps' = Append(isteps, "output_blink")
    /\ ipc' = "ready"
    /\ UNCHANGED <<initialized, battery_level, retry, nreads>>
    /\ isleep' = 0
    /\ UNCHANGED <<envVars, rendererVars, layerVars, eventVars>>

\* initialized = true, and the thread returns (its locals are gone)
led_init_done ==
    /\ ipc = "ready"
    /\ initialized' = TRUE
    /\ isteps' = Append(isteps, "initialized")
    /\ ipc' = "done"
    /\ battery_level' = 0
    /\ retry' = 0
    /\ nreads' = 0
    /\ isleep' = 0
    /\ UNCHANGED <<envVars, queueVars, rendererVars, layerVars, eventVars>>

(***************************************************************************)
(* The listeners.  The history ev / lev of an event holds the part of the  *)
(* event's content the listener read before it returned.  An event is delivered by the event bus in a context of  *)
(* its own; the output and battery listeners make at most one kernel call  *)
(* and are one step each, the layer listener takes one step per            *)
(* k_msgq_put of its loop.                                                 *)
(***************************************************************************)
NoEvent == [kind |-> "none", ready |-> FALSE, connected |-> FALSE,
            open |-> FALSE, level |-> 0, puts |-> <<>>, ret |-> "none"]

\* faulty variant: the listeners do not look at initialized
listener_ready_always == TRUE

\* the guard of the listeners, leds.c:117, 135, 160
listener_ready == initialized

\* led_output_listener_cb (leds.c:116-121)
led_output_listener_cb(connected, open) ==
    /\ nevents < env.events
    /\ nevents' = nevents + 1
    /\ IF listener_ready
       THEN /\ Put(output_item(cfg.peripheral, connected, open))
            /\ ev' = [kind |-> "output", ready |-> initialized,
                      connected |-> connected, open |-> open, level |-> 0,
                      puts |-> <<output_item(cfg.peripheral, connected, open)>>,
                      ret |-> put_ret']
       ELSE /\ UNCHANGED queueVars
            /\ ev' = [NoEvent EXCEPT !.kind = "output",
                                     !.ready = initialized]
    /\ UNCHANGED <<envVars, rendererVars, bootVars, layerVars>>

\* faulty variant: the unknown level 0 counts as critical
battery_critical_zero(level, critical) == level <= critical

\* the test of leds.c:142
battery_critical(level, critical) == level > 0 /\ level <= critical

battery_item ==
    blink_item(BLINK_FAST, cfg.battery_blink_ms, FALSE, 0)

\* led_battery_listener_cb (leds.c:134-150); level is the event's
\* state_of_charge
led_battery_listener_cb(level) ==
    /\ nevents < env.events
    /\ nevents' = nevents + 1
    /\ IF ~listener_ready
       THEN /\ UNCHANGED queueVars
            /\ ev' = [NoEvent EXCEPT !.kind = "battery",
                                     !.ready = initialized]
       ELSE IF battery_critical(level, cfg.critical)
       THEN /\ Put(battery_item)
            /\ ev' = [NoEvent EXCEPT !.kind = "battery",
                                     !.ready = initialized,
                                     !.level = level,
                                     !.puts = <<battery_item>>,
                                     !.ret = put_ret']
       ELSE /\ UNCHANGED queueVars
            /\ ev' = [NoEvent EXCEPT !.kind = "battery",
                                     !.ready = initialized,
                                     !.level = level]
    /\ UNCHANGED <<envVars, rendererVars, bootVars, layerVars>>

\* static const struct blink_item blink, final_blink (leds.c:170-176)
layer_blink ==
    blink_item(BLINK_FRANTIC, CONFIG_RGBLED_WIDGET_LAYER_BLINK_MS, FALSE,
               CONFIG_RGBLED_WIDGET_LAYER_BLINK_MS)

layer_final_blink ==
    blink_item(BLINK_MEDIUM, CONFIG_RGBLED_WIDGET_LAYER_BLINK_MS, FALSE, 0)

\* faulty variant: the closing item is never chosen
layer_item_no_final(n, idx) ==
    IF n < idx THEN layer_blink ELSE layer_final_blink

\* the item the loop body puts at counter n (leds.c:178-182)
layer_item(n, idx) == IF n < idx - 1 THEN layer_blink ELSE layer_final_blink

NoLayerEvent == [handled |-> FALSE, ready |-> FALSE, state |-> FALSE,
                 index |-> 0, puts |-> <<>>, taken |-> 0,
                 first |-> 0, last |-> 0, closed |-> FALSE]

\* led_layer_listener_cb (leds.c:159-185) up to the loop: the two early
\* returns and the read of the highest active layer.  The listener is
\* compiled on a central (or non-split) build only.
led_layer_listener_cb(state, idx) ==
    /\ ~cfg.peripheral
    /\ lpc = "idle"
    /\ nevents < env.events
    /\ nevents' = nevents + 1
    /\ IF ~listener_ready
       THEN /\ lev' = [NoLayerEvent EXCEPT !.handled = TRUE,
                                           !.ready = initialized]
            /\ UNCHANGED <<lpc, index, i>>
       ELSE IF ~state
       THEN /\ lev' = [NoLayerEvent EXCEPT !.handled = TRUE,
                                           !.ready = initialized]
            /\ UNCHANGED <<lpc, index, i>>
       ELSE /\ lev' = [NoLayerEvent EXCEPT !.handled = TRUE,
                                           !.ready = initialized,
                                           !.state = TRUE,
                                           !.index = idx]
            /\ index' = idx
            /\ i' = 0
            /\ lpc' = IF 0 < idx THEN "loop" ELSE "idle"
    /\ UNCHANGED <<ev>>
    /\ UNCHANGED <<envVars, queueVars, rendererVars, bootVars>>

\* one iteration of the loop, leds.c:177-183
led_layer_listener_loop ==
    /\ lpc = "loop"
    /\ Put(layer_item(i, index))
    /\ lev' = [lev EXCEPT !.puts = Append(@, layer_item(i, index)),
                          !.taken = IF put_ret' = "0" THEN @ + 1 ELSE @,
                          !.first = IF put_ret' = "0" /\ lev.taken = 0
                                    THEN Len(accepted') ELSE @,
                          !.last = IF put_ret' = "0"
                                   THEN Len(accepted') ELSE @,
                          !.closed = IF i + 1 = index
                                     THEN put_ret' = "0" ELSE @]
    /\ i' = i + 1
    /\ lpc' = IF i + 1 < index THEN "loop" ELSE "idle"
    /\ UNCHANGED <<index, ev, nevents>>
    /\ UNCHANGED <<envVars, rendererVars, bootVars>>

(***************************************************************************)
(* The environment's inputs.                                               *)
(***************************************************************************)
DefaultThresholds ==
    [low |-> CONFIG_RGBLED_WIDGET_BATTERY_LEVEL_LOW,
     high |-> CONFIG_RGBLED_WIDGET_BATTERY_LEVEL_HIGH,
     critical |-> CONFIG_RGBLED_WIDGET_BATTERY_LEVEL_CRITICAL]

\* charge values of battery events: unknown, and around the critical level
SampleLevels ==
    {0, 1, CONFIG_RGBLED_WIDGET_BATTERY_LEVEL_CRITICAL,
     CONFIG_RGBLED_WIDGET_BATTERY_LEVEL_CRITICAL + 1}

\* charge values read at boot: unknown, below low, between low and high, high
SampleBootLevels == {0, 10, 50, 100}

\* highest-layer values: the base layer, one layer, a few layers
SampleLayers == {0, 1, 2, 3}

InitProgram ==
    /\ initialized = FALSE
    /\ led_msgq = <<>>
    /\ led = FALSE
    /\ rpc = "get"
    /\ blink = NoItem
    /\ ipc = "start"
    /\ battery_level = 0
    /\ retry = 0
    /\ lpc = "idle"
    /\ index = 0
    /\ i = 0
    /\ rsleep = k_sleep(led_process_delay)
    /\ isleep = k_sleep(led_init_delay)
    /\ put_ret = "none"
    /\ nput = 0
    /\ accepted = <<>>
    /\ rendered = <<>>
    /\ rsteps = <<>>
    /\ isteps = <<>>
    /\ nreads = 0
    /\ ev = NoEvent
    /\ lev = NoLayerEvent
    /\ nevents = 0

Init ==
    /\ \E p \in BOOLEAN :
          cfg = [low |-> DefaultThresholds.low, high |-> DefaultThresholds.high,
                 critical |-> DefaultThresholds.critical, peripheral |-> p,
                 battery_blink_ms |-> CONFIG_RGBLED_WIDGET_BATTERY_BLINK_MS]
    /\ env = [levels |-> SampleBootLevels, ev_levels |-> SampleLevels,
              layers |-> SampleLayers, events |-> MaxEvents,
              timed |-> FALSE]
    /\ InitProgram

\* a central whose layer events carry more layers than the queue holds
InitFull ==
    /\ cfg = [low |-> DefaultThresholds.low, high |-> DefaultThresholds.high,
              critical |-> DefaultThresholds.critical, peripheral |-> FALSE,
              battery_blink_ms |-> CONFIG_RGBLED_WIDGET_BATTERY_BLINK_MS]
    /\ env = [levels |-> {0, 50},
              ev_levels |-> {CONFIG_RGBLED_WIDGET_BATTERY_LEVEL_CRITICAL},
              layers |-> {MaxLayer}, events |-> FullEvents,
              timed |-> FALSE]
    /\ InitProgram

\* other settings of the battery thresholds (low <= high, each at least 1)
Thresholds ==
    {DefaultThresholds,
     [low |-> 50, high |-> 50, critical |-> 1],
     [low |-> 1, high |-> 100, critical |-> 100],
     [low |-> 30, high |-> 60, critical |-> 30]}

\* every charge value and every layer, one event per run
InitWide ==
    /\ \E t \in Thresholds, p \in BOOLEAN :
          cfg = [low |-> t.low, high |-> t.high, critical |-> t.critical,
                 peripheral |-> p,
                 battery_blink_ms |-> CONFIG_RGBLED_WIDGET_BATTERY_BLINK_MS]
    /\ env = [levels |-> {0, 50}, ev_levels |-> 0 .. 100,
              layers |-> 0 .. MaxLayer, events |-> 1,
              timed |-> FALSE]
    /\ InitProgram

\* every charge value at boot, no events
InitBoot ==
    /\ \E t \in Thresholds :
          cfg = [low |-> t.low, high |-> t.high, critical |-> t.critical,
                 peripheral |-> FALSE,
                 battery_blink_ms |-> CONFIG_RGBLED_WIDGET_BATTERY_BLINK_MS]
    /\ env = [levels |-> 0 .. 100, ev_levels |-> {}, layers |-> {},
              events |-> 0, timed |-> FALSE]
    /\ InitProgram

\* settings of CONFIG_RGBLED_WIDGET_BATTERY_BLINK_MS: the default, and
\* values around twice the longest half period of led_do_blink
SampleBlinkMs == {CONFIG_RGBLED_WIDGET_BATTERY_BLINK_MS, 700, 600, 500}

\* a central whose sleeps and thread start delays take their time
InitTimed ==
    /\ \E b \in SampleBlinkMs :
          cfg = [low |-> DefaultThresholds.low, high |-> DefaultThresholds.high,
                 critical |-> DefaultThresholds.critical,
                 peripheral |-> FALSE, battery_blink_ms |-> b]
    /\ env = [levels |-> SampleBootLevels,
              ev_levels |-> {CONFIG_RGBLED_WIDGET_BATTERY_LEVEL_CRITICAL},
              layers |-> {2}, events |-> 1, timed |-> TRUE]
    /\ InitProgram

\* a thread that is ready to run: its k_sleep returned and it is not
\* blocked in k_msgq_get on the empty queue, nor ended
led_process_runnable == rsleep = 0 /\ (rpc # "get" \/ led_msgq # <<>>)
led_init_runnable == isleep = 0 /\ ipc # "done"

\* the smallest positive one of two times (0 when there is none)
next_timeout(a, b) ==
    IF a = 0 THEN b ELSE IF b = 0 THEN a ELSE IF a < b THEN a ELSE b

\* time passes until the next k_sleep returns; it passes only when no thread
\* and no listener loop is ready to run
Tick ==
    /\ env.timed
    /\ ~led_process_runnable /\ ~led_init_runnable /\ lpc = "idle"
    /\ next_timeout(rsleep, isleep) > 0
    /\ rsleep' = IF rsleep = 0 THEN 0 ELSE rsleep - next_timeout(rsleep, isleep)
    /\ isleep' = IF isleep = 0 THEN 0 ELSE isleep - next_timeout(rsleep, isleep)
    /\ UNCHANGED <<led, rpc, blink, rendered, rsteps>>
    /\ UNCHANGED <<initialized, ipc, battery_level, retry, isteps, nreads>>
    /\ UNCHANGED <<envVars, queueVars, layerVars, eventVars>>

Renderer ==
    \/ led_process_get
    \/ led_do_blink_begin
    \/ led_do_blink_off
    \/ led_process_gap
    \/ led_process_next

Boot ==
    \/ led_init_read
    \/ led_init_retry
    \/ led_init_battery
    \/ led_init_output
    \/ led_init_done

Events ==
    \/ \E connected \in BOOLEAN, open \in OpenAnswers :
          led_output_listener_cb(connected, open)
    \/ \E level \in env.ev_levels : led_battery_listener_cb(level)
    \/ \E state \in BOOLEAN, idx \in env.layers :
          led_layer_listener_cb(state, idx)
    \/ led_layer_listener_loop

Next == Renderer \/ Boot \/ Events

Spec == Init /\ [][Next]_vars

SpecFull == InitFull /\ [][Next]_vars

SpecWide == InitWide /\ [][Next]_vars

NextBoot == Renderer \/ Boot

\* the renderer thread is scheduled whenever it can run
SpecFairRenderer == Init /\ [][Next]_vars /\ WF_vars(Renderer)

\* the boot thread is scheduled whenever it can run
SpecFairBoot == Init /\ [][Next]_vars /\ WF_vars(Boot)

SpecBoot == InitBoot /\ [][NextBoot]_vars

NextTimed == Next \/ Tick

SpecTimed == InitTimed /\ [][NextTimed]_vars

(***************************************************************************)
(* Properties.                                                             *)
(***************************************************************************)
\* a step of a listener: an event is delivered, or the layer loop iterates
ListenerStep == nevents' # nevents \/ lev' # lev \/ ev' # ev

\* a step of led_init_thread
BootStep == ipc' # ipc \/ retry' # retry

\* C1: while initialized is false no listener calls k_msgq_put, whatever the
\* event holds; every k_msgq_put made before readiness is a step of
\* led_init_thread.
C1_NoListenerPutBeforeReady ==
    [][~initialized =>
         /\ ListenerStep => /\ UNCHANGED <<led_msgq, accepted, nput, put_ret>>
                            /\ lpc' = "idle"
                            /\ ev'.puts = <<>> /\ lev'.puts = <<>>
         /\ nput' # nput => BootStep /\ ~ListenerStep]_vars

\* C1 witness: all three listeners were called before readiness while the
\* boot thread's two items are the only ones ever put
C1_Witness ==
    /\ ~initialized
    /\ ev.kind # "none" /\ ~ev.ready
    /\ lev.handled /\ ~lev.ready
    /\ nevents = MaxEvents
    /\ nput = 2 /\ Len(accepted) = 2

\* C2: a k_msgq_put on a queue of 16 items is refused: the queue and the
\* accepted items are unchanged, the call returns -ENOMSG, it is made once
\* and the caller goes on; the queue never holds more than 16 items.
C2_FullQueueRefuses ==
    [][/\ Len(led_msgq') <= 16
       /\ (nput' # nput /\ Len(led_msgq) = 16) =>
            /\ led_msgq' = led_msgq
            /\ accepted' = accepted
            /\ put_ret' = "ENOMSG"
            /\ nput' = nput + 1
            /\ \/ i' = i + 1 /\ Len(lev'.puts) = Len(lev.puts) + 1
               \/ nevents' = nevents + 1 /\ lpc' = lpc
               \/ ipc' # ipc]_vars

\* C2 witness: the queue is full and the last k_msgq_put was refused
C2_Witness ==
    /\ Len(led_msgq) = 16
    /\ put_ret = "ENOMSG"
    /\ Len(accepted) < nput

\* the items accepted and not yet handed to led_do_blink
Pending == (IF rpc = "blink" THEN <<blink>> ELSE <<>>) \o led_msgq

\* C3: the renderer renders the accepted items in the order of their
\* acceptance, each once, none merged or skipped: the items rendered so far
\* followed by the pending ones are the items accepted so far.
C3_StrictFifo == accepted = rendered \o Pending

\* C3 witness: a critical battery event's Fast item then a connected
\* profile's Off item were accepted in a row and both rendered
C3_Witness ==
    \E k \in 1 .. Len(rendered) - 1 :
        /\ initialized
        /\ accepted[k] = blink_item(BLINK_FAST, 2000, FALSE, 0)
        /\ accepted[k + 1] = blink_item(BLINK_OFF, 1000, FALSE, 0)
        /\ rendered[k].rate = BLINK_FAST
        /\ rendered[k + 1].rate = BLINK_OFF

\* the calls of one whole pass of the renderer's loop for an item
WholeRender(item) ==
    IF item.rate = BLINK_OFF
    THEN <<<<"led_off", 0>>, <<"k_sleep", gap_ms(item)>>, <<"loop", 0>>>>
    ELSE <<<<"led_on", 0>>, <<"k_sleep", half_period(item.rate)>>,
           <<"led_off", 0>>, <<"k_sleep", half_period(item.rate)>>,
           <<"k_sleep", gap_ms(item)>>, <<"loop", 0>>>>

\* C4: an item leaves the queue only when the renderer has made every call
\* of the previous item's render and finished its gap sleep; a listener's
\* step leaves the renderer and the LED alone.
C4_NoPreemption ==
    [][/\ Len(led_msgq') < Len(led_msgq) =>
            /\ rpc = "get"
            /\ rendered # <<>> => rsteps = WholeRender(blink)
            /\ blink' = Head(led_msgq)
       /\ ListenerStep => UNCHANGED <<rpc, blink, rsteps, led, rendered>>]_vars

\* C4 witness: a second item was dequeued after a pulsed one, with events
\* delivered meanwhile
C4_Witness ==
    /\ Len(rendered) >= 2
    /\ rendered[1].rate # BLINK_OFF
    /\ rpc = "blink"
    /\ nevents > 0
C6_BatteryMapping ==
    (ev.kind = "battery" /\ ev.ready) =>
        /\ ev.level \in 0 .. 100
        /\ ev.level = 0 => ev.puts = <<>>
        /\ ev.level \in 1 .. cfg.critical =>
              /\ Len(ev.puts) = 1
              /\ ev.puts[1].rate = BLINK_FAST
              /\ ev.ret = "0" => accepted[Len(accepted)].rate = BLINK_FAST
        /\ ev.level \in cfg.critical + 1 .. 100 => ev.puts = <<>>
        /\ ev.puts = <<>> => ev.ret = "none"

\* C6 witness: an event at exactly the critical level was handled
C6_Witness ==
    /\ ev.kind = "battery" /\ ev.ready
    /\ ev.level = cfg.critical /\ cfg.critical > 1
    /\ Len(ev.puts) = 1

\* the pattern of a layer activation with highest layer n
LayerPattern(n) ==
    [k \in 1 .. n |->
        IF k < n
        THEN [rate |-> BLINK_FRANTIC,
              duration_ms |-> CONFIG_RGBLED_WIDGET_LAYER_BLINK_MS,
              first_item |-> FALSE,
              sleep_ms |-> CONFIG_RGBLED_WIDGET_LAYER_BLINK_MS]
        ELSE [rate |-> BLINK_MEDIUM,
              duration_ms |-> CONFIG_RGBLED_WIDGET_LAYER_BLINK_MS,
              first_item |-> FALSE, sleep_ms |-> 0]]

\* the last n items accepted
LastAccepted(n) == SubSeq(accepted, Len(accepted) - n + 1, Len(accepted))

\* C7: a layer event handled while ready puts nothing when it is a
\* deactivation; an activation with highest layer n calls k_msgq_put n
\* times: n-1 times with {Frantic, gap layer_blink_ms}, then with {Medium,
\* default gap}; when the queue took them all they are the last n items
\* accepted.
C7_LayerPattern ==
    (lev.handled /\ lev.ready) =>
        /\ ~lev.state => lev.puts = <<>> /\ lpc = "idle"
        /\ (lev.state /\ lpc = "idle") => lev.puts = LayerPattern(lev.index)
        /\ (lev.state /\ lpc = "loop") =>
              /\ Len(lev.puts) < lev.index
              /\ lev.puts = SubSeq(LayerPattern(lev.index), 1, Len(lev.puts))
        /\ lev.taken <= Len(lev.puts)
        /\ (lev.state /\ lpc = "idle" /\ lev.taken = lev.index) =>
              LastAccepted(lev.index) = LayerPattern(lev.index)

\* C7 witness: an activation with highest layer 3 was handled to its end
C7_Witness ==
    /\ lev.handled /\ lev.ready /\ lev.state
    /\ lev.index = 3 /\ lpc = "idle"
    /\ Len(lev.puts) = 3 /\ lev.taken = 3
    /\ lev.puts[1].rate = BLINK_FRANTIC /\ lev.puts[3].rate = BLINK_MEDIUM

\* the items of the boot battery indication among the accepted ones
BootBatteryItems == {k \in 1 .. Len(accepted) : accepted[k].first_item}

\* C8: the boot thread reads the charge again only while it is 0 and at most
\* 10 times, and puts one battery item whose rate is that of the last
\* reading: Off after 10 retries that read 0, the rate of 50 (Fast, not Off)
\* when the 10th retry reads 50.
C8_BootRetry ==
    [][/\ nreads' <= 10
       /\ (nreads' # nreads /\ ipc' # "done") =>
            battery_level = 0 /\ nreads' = nreads + 1
       /\ (ipc = "loop" /\ battery_level' # battery_level) => nreads' # nreads
       /\ (ipc = "loop" /\ battery_level # 0) => (BootStep => ipc' = "sleep")
       /\ Cardinality(BootBatteryItems') <= 1
       /\ ipc' \in {"sleep", "ready"} =>
            /\ BootBatteryItems' = {1}
            /\ battery_level' = 0 =>
                  nreads' = 10 /\ accepted'[1].rate = BLINK_OFF
            /\ battery_level' = 50 =>
                  accepted'[1].rate = BLINK_FAST /\ accepted'[1].rate # BLINK_OFF
            /\ battery_level' = 100 => accepted'[1].rate = BLINK_SLOW
       /\ ipc' = "done" => Cardinality(BootBatteryItems') = 1]_vars

\* C8 witness: the charge read 0 until the 10th retry read 50
C8_Witness ==
    /\ ipc = "sleep"
    /\ nreads = 10 /\ battery_level = 50
    /\ accepted[1].rate = BLINK_FAST /\ accepted[1].first_item

\* C9: the rate of the boot battery item is Off for a final reading of 0,
\* Slow for a reading >= high, Fast for low <= reading < high.
C9_BootMapping ==
    ipc \in {"sleep", "ready"} =>
        /\ battery_level \in 0 .. 100
        /\ cfg.low <= cfg.high
        /\ accepted[1].first_item
        /\ battery_level = 0 => accepted[1].rate = BLINK_OFF
        /\ battery_level >= cfg.high => accepted[1].rate = BLINK_SLOW
        /\ (cfg.low <= battery_level /\ battery_level < cfg.high) =>
              accepted[1].rate = BLINK_FAST

\* C9 witness: a reading at the low threshold, with thresholds other than
\* the defaults
C9_Witness ==
    /\ ipc = "sleep"
    /\ cfg.low = 30 /\ battery_level = cfg.low
    /\ accepted[1].rate = BLINK_FAST

\* the steps of the boot thread after the battery read-out
BootOrder == <<"k_msgq_put", "k_sleep", "output_blink", "initialized">>

\* C10: the boot thread puts the battery item (first_item set), sleeps, puts
\* one connectivity item while initialized is still false, and then sets
\* initialized; initialized starts false, is written once, and stays true.
C10_BootOrder ==
    [][/\ isteps = SubSeq(BootOrder, 1, Len(isteps))
       /\ isteps' = SubSeq(BootOrder, 1, Len(isteps'))
       /\ initialized <=> isteps = BootOrder
       /\ initialized' <=> isteps' = BootOrder
       /\ initialized => initialized'
       /\ (Len(accepted) = 0 /\ Len(accepted') = 1) =>
            /\ accepted'[1].first_item
            /\ accepted'[1].duration_ms = CONFIG_RGBLED_WIDGET_BATTERY_BLINK_MS
            /\ isteps = <<>> /\ ~initialized'
       /\ (Len(accepted) = 1 /\ Len(accepted') = 2) =>
            /\ isteps = <<"k_msgq_put", "k_sleep">>
            /\ ~accepted'[2].first_item
            /\ accepted'[2].duration_ms = CONFIG_RGBLED_WIDGET_OUTPUT_BLINK_MS
            /\ accepted'[2].rate \in {BLINK_OFF, BLINK_FAST, BLINK_SLOW}
            /\ ~initialized /\ ~initialized'
       /\ initialized' => Len(accepted') >= 2]_vars

\* C10 witness: the boot thread has finished and both its items were rendered
C10_Witness ==
    /\ initialized /\ ipc = "done"
    /\ isteps = BootOrder
    /\ Len(rendered) >= 2
    /\ rendered[1].first_item
\* the k_sleep of each rate's pulse
PulseMs(rate) ==
    CASE rate = BLINK_SLOW -> 300
      [] rate = BLINK_MEDIUM -> 150
      [] rate = BLINK_FAST -> 80
      [] rate = BLINK_FRANTIC -> 20

\* the calls of led_do_blink for a rate other than BLINK_OFF
Pulse(rate) ==
    <<<<"led_on", 0>>, <<"k_sleep", PulseMs(rate)>>,
      <<"led_off", 0>>, <<"k_sleep", PulseMs(rate)>>>>

\* the k_sleep calls among the renderer's steps
Sleeps(steps) == {k \in 1 .. Len(steps) : steps[k][1] = "k_sleep"}

\* C12: rendering an item whose rate is not Off is: LED on, sleep the rate's
\* half-period, LED off, sleep the same half-period, once, whatever the
\* item's duration_ms; rendering an Off item turns the LED off and sleeps
\* only the gap that follows the render.
C12_RenderPulse ==
    /\ rpc = "on" => led /\ rsteps = SubSeq(Pulse(blink.rate), 1, 2)
    /\ rpc = "off" => ~led /\ rsteps = Pulse(blink.rate)
    /\ (rpc \in {"gap", "get"} /\ rendered # <<>>) =>
          IF blink.rate = BLINK_OFF
          THEN /\ rsteps[1] = <<"led_off", 0>>
               /\ Cardinality(Sleeps(rsteps)) = 1
               /\ ~led
          ELSE /\ SubSeq(rsteps, 1, 4) = Pulse(blink.rate)
               /\ Cardinality(Sleeps(rsteps)) = 3
    /\ rpc \in {"on", "off"} => blink.rate # BLINK_OFF

\* C12 witness: a Fast item of 2000 ms is in its second half-period after a
\* Fast item of 1000 ms was rendered
C12_Witness ==
    /\ rpc = "off"
    /\ blink.rate = BLINK_FAST /\ blink.duration_ms = 2000
    /\ \E k \in 1 .. Len(rendered) :
          rendered[k].rate = BLINK_FAST /\ rendered[k].duration_ms = 1000

\* a step of led_process_thread
RendererStep == rpc' # rpc

\* C13: only the renderer thread changes the LED: a step of a listener or of
\* the boot thread leaves it as it is.
C13_OnlyRendererDrivesLed ==
    [][/\ led' # led => RendererStep /\ ~ListenerStep /\ ~BootStep
       /\ (ListenerStep \/ BootStep \/ nput' # nput) => led' = led]_vars

\* C13 witness: the LED is on while the boot thread has finished and every
\* event of the run was delivered
C13_Witness ==
    /\ led
    /\ initialized
    /\ nevents = MaxEvents
    /\ ev.kind # "none" /\ lev.handled

\* C14: after a render the renderer sleeps the item's sleep_ms when it is
\* not 0 and the default interval otherwise: layer_blink_ms after a Frantic
\* item, the default interval after every other item.
C14_GapAfterRender ==
    (rpc \in {"gap", "get"} /\ rendered # <<>>) =>
       LET g == IF rpc = "gap" THEN rsteps[Len(rsteps)]
                ELSE rsteps[Len(rsteps) - 1]
       IN /\ g[1] = "k_sleep"
          /\ g[2] = IF blink.sleep_ms # 0 THEN blink.sleep_ms ELSE 500
          /\ blink.rate = BLINK_FRANTIC => g[2] = 100
          /\ blink.rate # BLINK_FRANTIC => g[2] = 500
          /\ rpc = "get" => rsteps[Len(rsteps)] = <<"loop", 0>>

\* C14 witness: the gap after a Frantic item is being slept
C14_Witness ==
    /\ rpc = "gap"
    /\ blink.rate = BLINK_FRANTIC
    /\ rsteps[Len(rsteps)] = <<"k_sleep", 100>>

\* the boot thread's final reading is known and is nonzero and below low
BootLevelBelowLow ==
    /\ ipc \in {"sleep", "ready"}
    /\ 0 < battery_level /\ battery_level < cfg.low

\* C15: when the final boot reading is nonzero and below the low threshold,
\* rendering the boot battery item leaves the LED as it was, with no
\* on-pulse.
C15_LowLevelNoChange ==
    [][BootLevelBelowLow =>
         /\ accepted[1].first_item /\ accepted[1].rate = BLINK_OFF
         /\ (rpc = "blink" /\ blink.first_item /\ RendererStep) =>
               /\ led' = led
               /\ ~led'
               /\ rpc' = "gap"
               /\ \A k \in 1 .. Len(rsteps') : rsteps'[k][1] # "led_on"]_vars

\* C15 witness: the item of a reading of 10 was rendered while the boot
\* thread sleeps
C15_Witness ==
    /\ ipc = "sleep"
    /\ battery_level = 10
    /\ rpc = "gap" /\ blink.first_item
    /\ rendered = <<blink>>
\* C18: until initialized is set the queue holds at most 2 items, both put
\* by the boot thread and neither refused; the first item ever rendered is
\* the boot battery item, the only one with first_item set.
C18_BootItemsFirst ==
    /\ ~initialized =>
          /\ Len(led_msgq) <= 2
          /\ nput <= 2 /\ Len(accepted) = nput
          /\ put_ret # "ENOMSG"
          /\ Len(accepted) >= 1 => accepted[1].first_item
          /\ Len(accepted) = 2 =>
                /\ ~accepted[2].first_item
                /\ accepted[2].duration_ms = CONFIG_RGBLED_WIDGET_OUTPUT_BLINK_MS
          /\ ipc \in {"sleep", "ready"} <=> Len(accepted) >= 1
          /\ ipc = "ready" <=> Len(accepted) = 2
    /\ initialized => Len(accepted) >= 2
    /\ rendered # <<>> => rendered[1].first_item /\ rendered[1] = accepted[1]
    /\ \A k \in 2 .. Len(accepted) : ~accepted[k].first_item
    /\ \A k \in 2 .. Len(rendered) : ~rendered[k].first_item

\* C18 witness: both boot items wait in the queue, events were delivered and
\* dropped, and initialized is still false
C18_Witness ==
    /\ ~initialized
    /\ Len(led_msgq) = 2
    /\ led_msgq[1].first_item
    /\ nevents = MaxEvents

\* C19: after the first render the LED is off whenever the renderer sleeps
\* the gap or waits on the queue; it is on only in the first half-period of
\* an item whose rate is not Off.
C19_LedOffBetweenRenders ==
    /\ (rendered # <<>> /\ rpc \in {"gap", "get"}) => ~led
    /\ led => rpc = "on" /\ blink.rate # BLINK_OFF

\* C19 witness: the renderer waits on the empty queue, LED off, after it
\* rendered three items, a pulsed one among them
C19_Witness ==
    /\ rpc = "get" /\ led_msgq = <<>>
    /\ ~led
    /\ Len(rendered) >= 3
    /\ \E k \in 1 .. Len(rendered) : rendered[k].rate # BLINK_OFF
\* the items whose whole pass of the renderer's loop is over
Completed ==
    Len(rendered) - (IF rpc \in {"on", "off", "gap"} THEN 1 ELSE 0)

\* the most items one run accepts: the boot thread's two and each event's
LiveItems == 1 .. (2 + 3 * MaxEvents)

\* C16: with the renderer thread scheduled fairly every accepted item is
\* dequeued and rendered to its end and the thread is back at k_msgq_get;
\* the thread never ends and is never stuck: it waits on the empty queue or
\* can take a step.
C16_EveryItemRendered ==
    /\ \A n \in LiveItems : (Len(accepted) >= n) ~> (Completed >= n)
    /\ [](\/ rpc = "get" /\ led_msgq = <<>>
          \/ ENABLED Renderer)
    /\ <>[](rpc = "get" /\ rendered = accepted)

\* C16 witness: every item of a run with events was rendered and the
\* renderer waits on the empty queue
C16_Witness ==
    /\ rpc = "get" /\ led_msgq = <<>>
    /\ nevents = MaxEvents
    /\ Len(accepted) > 2
    /\ rendered = accepted

\* C17: the boot thread ends and initialized becomes true, whatever the
\* battery reads (also 0 at every read) and whatever the queue and the
\* renderer do.
C17_BootTerminates ==
    /\ <>[](initialized /\ ipc = "done")
    /\ [](ipc = "done" => ~ENABLED Boot)
    /\ [](ipc # "done" => ENABLED Boot)

\* C17 witness: the boot thread ended after the charge read 0 at every read,
\* with its items still unrendered
C17_Witness ==
    /\ initialized /\ ipc = "done"
    /\ accepted[1].rate = BLINK_OFF
    /\ rendered = <<>>
\* C20: the items accepted from one layer activation are next to each other
\* in the order of acceptance (no item of another producer between them),
\* and once the activation's loop is over, if any of its items was accepted
\* then its closing Medium item was accepted.
C20_IntactLayerPattern ==
    (lev.handled /\ lev.taken > 0) =>
        /\ lev.last - lev.first + 1 = lev.taken
        /\ lpc = "idle" => lev.closed
\* C11: when the boot thread calls output_blink after its k_sleep of
\* battery_blink_ms + interval, the renderer has rendered the boot battery
\* item to its end (both half periods and the interval) and is back at
\* k_msgq_get on the empty queue, for every rate of the item and every
\* setting of battery_blink_ms.
C11_BatteryRenderedBeforeOutput ==
    [][(ipc = "sleep" /\ ipc' = "ready") =>
          /\ rpc = "get" /\ led_msgq = <<>>
          /\ rendered = <<accepted[1]>>]_vars

\* the same for the settings of battery_blink_ms above twice the longest
\* half period of led_do_blink
C11_LongBlinkRendered ==
    [][(ipc = "sleep" /\ ipc' = "ready"
        /\ cfg.battery_blink_ms > 2 * half_period(BLINK_SLOW)) =>
          /\ rpc = "get" /\ led_msgq = <<>>
          /\ rendered = <<accepted[1]>>]_vars

====
